---- MODULE Spec2Model ----
(***************************************************************************)
(* Memory Overcommitment Manager: the Monitor collection cycle             *)
(* (mom/Monitor.py), the collector plugin contract                         *)
(* (mom/Collectors/Collector.py) and the KSM controller                    *)
(* (mom/Controllers/KSM.py).                                               *)
(*                                                                         *)
(* Python values are encoded as follows.  None is the empty tuple; a value *)
(* v that may also be None is the one-element tuple <<v>>.  A dict is a    *)
(* function whose DOMAIN is the set of its keys.  The tri-state            *)
(* Monitor.ready (None / True / False) is one of the strings "None",       *)
(* "True", "False".                                                        *)
(***************************************************************************)
EXTENDS Integers, Sequences, FiniteSets, TLC

VARIABLES
    \* ---- configuration and construction-time state of one Monitor
    collectors,        \* self.collectors: sequence of collector declarations
    history_length,    \* config.getint('main', 'sample-history-length')
    running,           \* config.getint('__int__', 'running')
    \* ---- Monitor fields
    fields,            \* self.fields: None or <<set>>
    optional_fields,   \* self.optional_fields: None or <<set>>
    statistics,        \* self.statistics: deque of samples, oldest first
    variables,         \* self.variables: dict
    ready,             \* self.ready: "None" | "True" | "False"
    _terminate,        \* self._terminate
    data_lock,         \* self.data_lock: "free" or the name of the holder
    \* ---- the thread running collect()
    pc,                \* position inside collect()
    ci,                \* index of the next collector of the for loop
    data,              \* the local accumulator dict
    invoked,           \* log of the collector calls of the current cycle
    ret,               \* what the last collect() returned: None or <<dict>>
    \* ---- the thread running interrogate()
    ipc,               \* position inside interrogate()
    iseen,             \* self.ready as the last interrogate() read it
    iret,              \* what the last interrogate() returned: None or <<Entity>>
    \* ---- the threads running update_variables()
    upc,               \* position of each updater inside update_variables()
    uarg,              \* the dict each updater passed to update_variables()
    uleft,             \* the keys of it that each updater has yet to write
    \* ---- KSM controller and its host object
    controls,          \* host.GetControl('ksm_' + key): desired values
    host_ksm,          \* host.ksm_<key>: last-applied values
    kpc,               \* "idle" | "returned" | "raised": state of process()
    tune_calls,        \* arguments of the ksmTune calls of the last process()
    kprev,             \* tune_calls of the process() before the one kpc and
                       \* tune_calls tell of, None when there was none since
                       \* the controls were set
    \* ---- get_collectors(config_str, properties, global_config)
    config_str,        \* the pieces of config_str.split(',')
    global_config,     \* the names n for which 'Collector: n' is a section
    base_properties,   \* the dict properties as the caller passed it
    properties,        \* the dict properties as it is now
    gc_pc,             \* "idle" | "returned" | "raised"
    gc_collectors,     \* the local list collectors when the call ended
    gc_ret             \* what get_collectors returned: None or <<list>>

monitor_vars == <<collectors, history_length, running, fields, optional_fields,
                  statistics, variables, ready, _terminate, data_lock,
                  pc, ci, data, invoked, ret, ipc, iseen, iret, upc, uarg, uleft>>

ksm_vars == <<controls, host_ksm, kpc, tune_calls, kprev>>

gc_vars == <<config_str, global_config, base_properties, properties, gc_pc,
             gc_collectors, gc_ret>>

vars == <<collectors, history_length, running, fields, optional_fields,
          statistics, variables, ready, _terminate, data_lock,
          pc, ci, data, invoked, ret, ipc, iseen, iret, upc, uarg, uleft,
          controls, host_ksm, kpc, tune_calls, kprev,
          config_str, global_config, base_properties, properties, gc_pc,
          gc_collectors, gc_ret>>

----------------------------------------------------------------------------
\* Encoding of Python values

None == << >>

Some(v) == <<v>>

EmptyDict == [k \in {} |-> None]

Keys(d) == DOMAIN d

\* collections.deque.popleft()
PopLeft(q) == SubSeq(q, 2, Len(q))

----------------------------------------------------------------------------
\* Bounds and input domains

\* largest configured sample-history-length
MaxHistory == 2

\* names of statistics
Fields == {"x", "y"}

\* values a collector reports for a statistic (None included)
FieldValues == {None, Some(5), Some(9)}

\* every dict a collector's collect() can return over Fields
Fragments == UNION {[S -> FieldValues] : S \in SUBSET Fields}

\* a collector declaration: what getFields() and getOptionalFields() return
CollectorDecls == [getFields : SUBSET Fields, getOptionalFields : SUBSET Fields]

Decl(m, o) == [getFields |-> m, getOptionalFields |-> o]

\* every list of two collectors
AllCollectorLists == [{1, 2} -> CollectorDecls]

\* lists of two collectors used where the declarations are not the subject
SomeCollectorLists ==
    { <<Decl({"x"}, {}), Decl({}, {"y"})>>,
      <<Decl({"x"}, {"y"}), Decl({"x", "y"}, {})>>,
      <<Decl({}, {"x"}), Decl({}, {"x", "y"})>> }

----------------------------------------------------------------------------
\* Monitor.__init__ and the construction of its collectors

\* the threads that call update_variables()
Updaters == {1, 2}

InitMonitor(lists, lengths, runs) ==
    /\ collectors \in lists
    /\ history_length \in lengths
    /\ running \in runs
    /\ fields = None
    /\ optional_fields = None
    /\ statistics = << >>
    /\ variables = EmptyDict
    /\ ready = "None"
    /\ _terminate = FALSE
    /\ data_lock = "free"
    /\ pc = "idle"
    /\ ci = 0
    /\ data = EmptyDict
    /\ invoked = << >>
    /\ ret = None
    /\ ipc = "idle"
    /\ iseen = "no call"
    /\ iret = None
    /\ upc = [t \in Updaters |-> "idle"]
    /\ uarg = [t \in Updaters |-> EmptyDict]
    /\ uleft = [t \in Updaters |-> {}]

----------------------------------------------------------------------------
\* Monitor.collect(): the field contract

\* self.fields |= c.getFields() over all collectors
MandatoryUnion(cs) == UNION {cs[i].getFields : i \in DOMAIN cs}

\* self.optional_fields |= c.getOptionalFields() over all collectors
OptionalUnion(cs) == UNION {cs[i].getOptionalFields : i \in DOMAIN cs}

\* self.optional_fields.difference(self.fields)
RemoveMandatoryKeepsOverlap(opt, mand) == opt

RemoveMandatory(opt, mand) == opt \ mand

\* Monitor.valid_fields
valid_fields == fields[1] \cup optional_fields[1]

\* Start of collect(): memoize the field sets, data = {}
CollectBeginHoldingLock ==
    /\ pc = "idle"
    /\ data_lock = "free"
    /\ data_lock' = "collect"
    /\ LET f == IF fields = None THEN MandatoryUnion(collectors) ELSE fields[1]
           o == IF optional_fields = None THEN OptionalUnion(collectors)
                                          ELSE optional_fields[1]
       IN  /\ fields' = Some(f)
           /\ optional_fields' = Some(RemoveMandatory(o, f))
    /\ data' = EmptyDict
    /\ ci' = 1
    /\ invoked' = << >>
    /\ pc' = "loop"
    /\ UNCHANGED <<collectors, history_length, running, statistics, variables,
                   ready, _terminate, ret, ipc, iseen, iret, upc, uarg, uleft>>
    /\ UNCHANGED ksm_vars
    /\ UNCHANGED gc_vars

CollectBegin ==
    /\ pc = "idle"
    /\ LET f == IF fields = None THEN MandatoryUnion(collectors) ELSE fields[1]
           o == IF optional_fields = None THEN OptionalUnion(collectors)
                                          ELSE optional_fields[1]
       IN  /\ fields' = Some(f)
           /\ optional_fields' = Some(RemoveMandatory(o, f))
    /\ data' = EmptyDict
    /\ ci' = 1
    /\ invoked' = << >>
    /\ pc' = "loop"
    /\ UNCHANGED <<collectors, history_length, running, statistics, variables,
                   ready, _terminate, data_lock, ret, ipc, iseen, iret, upc,
                   uarg, uleft>>
    /\ UNCHANGED ksm_vars
    /\ UNCHANGED gc_vars

----------------------------------------------------------------------------
\* Monitor.collect(): the loop over the collectors

\* for (key, val) in collected.items():
\*     if key not in data or data[key] is None: data[key] = val
MergeLastWriterWins(acc, collected) ==
    [k \in Keys(acc) \cup Keys(collected) |->
        IF k \in Keys(collected) THEN collected[k] ELSE acc[k]]

MergeFirstWriteSticky(acc, collected) ==
    [k \in Keys(acc) \cup Keys(collected) |->
        IF k \in Keys(acc) THEN acc[k] ELSE collected[k]]

Merge(acc, collected) ==
    [k \in Keys(acc) \cup Keys(collected) |->
        IF k \in Keys(collected) /\ (k \notin Keys(acc) \/ acc[k] = None)
        THEN collected[k]
        ELSE acc[k]]

InLoop == pc = "loop" /\ ci <= Len(collectors)

Call(result, collected) == [collector |-> ci, result |-> result, collected |-> collected]

\* what a collector step that does not abort the cycle leaves alone
LoopFrame ==
    /\ UNCHANGED <<collectors, history_length, running, fields, optional_fields,
                   statistics, variables, ready, _terminate, data_lock, pc, ret,
                   ipc, iseen, iret, upc, uarg, uleft>>
    /\ UNCHANGED ksm_vars
    /\ UNCHANGED gc_vars

\* c.collect() returns a dict, which is merged into data
CollectorReturns(frags) ==
    /\ InLoop
    /\ \E collected \in frags :
          /\ data' = Merge(data, collected)
          /\ invoked' = Append(invoked, Call("dict", Some(collected)))
    /\ ci' = ci + 1
    /\ LoopFrame

\* c.collect() returns None: continue
CollectorReturnsNone ==
    /\ InLoop
    /\ invoked' = Append(invoked, Call("None", None))
    /\ ci' = ci + 1
    /\ UNCHANGED data
    /\ LoopFrame

\* c.collect() raises Collector.CollectionError: logged, the loop goes on
CollectorCollectionErrorEscapes ==
    /\ InLoop
    /\ invoked' = Append(invoked, Call("CollectionError", None))
    /\ ret' = None
    /\ data' = EmptyDict
    /\ pc' = "idle"
    /\ UNCHANGED <<collectors, history_length, running, fields, optional_fields,
                   statistics, variables, ready, _terminate, data_lock, ci, ipc,
                   iseen, iret, upc, uarg, uleft>>
    /\ UNCHANGED ksm_vars
    /\ UNCHANGED gc_vars

CollectorCollectionError ==
    /\ InLoop
    /\ invoked' = Append(invoked, Call("CollectionError", None))
    /\ ci' = ci + 1
    /\ UNCHANGED data
    /\ LoopFrame

\* c.collect() raises any other exception: logged, the loop goes on
CollectorUnexpectedError ==
    /\ InLoop
    /\ invoked' = Append(invoked, Call("Exception", None))
    /\ ci' = ci + 1
    /\ UNCHANGED data
    /\ LoopFrame

\* c.collect() raises Collector.FatalError:
\* self._set_not_ready(...); self.terminate(); return None
CollectorFatalErrorGoesOn ==
    /\ InLoop
    /\ invoked' = Append(invoked, Call("FatalError", None))
    /\ ready' = "False"
    /\ _terminate' = TRUE
    /\ ci' = ci + 1
    /\ UNCHANGED <<collectors, history_length, running, fields, optional_fields,
                   statistics, variables, data_lock, pc, data, ret, ipc, iseen,
                   iret, upc, uarg, uleft>>
    /\ UNCHANGED ksm_vars
    /\ UNCHANGED gc_vars

CollectorFatalError ==
    /\ InLoop
    /\ invoked' = Append(invoked, Call("FatalError", None))
    /\ ready' = "False"
    /\ _terminate' = TRUE
    /\ ret' = None
    /\ data' = EmptyDict
    /\ pc' = "idle"
    /\ UNCHANGED <<collectors, history_length, running, fields, optional_fields,
                   statistics, variables, data_lock, ci, ipc, iseen, iret, upc, uarg, uleft>>
    /\ UNCHANGED ksm_vars
    /\ UNCHANGED gc_vars

----------------------------------------------------------------------------
\* Monitor.collect(): validation, append, readiness

\* set(data).issuperset(self.fields)
CompleteIfAny(d, mand) == mand = {} \/ mand \cap Keys(d) # {}

CompleteNonNull(d, mand) == \A k \in mand : k \in Keys(d) /\ d[k] # None

Complete(d, mand) == mand \subseteq Keys(d)

\* for k in self.optional_fields: data.setdefault(k, None)
SetDefaults(d, opt) ==
    [k \in Keys(d) \cup opt |-> IF k \in Keys(d) THEN d[k] ELSE None]

\* the loop is over and a mandatory field is missing:
\* self._set_not_ready(...); return None
CollectIncomplete ==
    /\ pc = "loop"
    /\ ci > Len(collectors)
    /\ ~Complete(data, fields[1])
    /\ ready' = "False"
    /\ ret' = None
    /\ data' = EmptyDict
    /\ pc' = "idle"
    /\ UNCHANGED <<collectors, history_length, running, fields, optional_fields,
                   statistics, variables, _terminate, data_lock, ci, invoked,
                   ipc, iseen, iret, upc, uarg, uleft>>
    /\ UNCHANGED ksm_vars
    /\ UNCHANGED gc_vars

\* the loop is over and every mandatory field is there: fill the optional ones
CollectFill ==
    /\ pc = "loop"
    /\ ci > Len(collectors)
    /\ Complete(data, fields[1])
    /\ data' = SetDefaults(data, optional_fields[1])
    /\ pc' = "lock"
    /\ UNCHANGED <<collectors, history_length, running, fields, optional_fields,
                   statistics, variables, ready, _terminate, data_lock, ci,
                   invoked, ret, ipc, iseen, iret, upc, uarg, uleft>>
    /\ UNCHANGED ksm_vars
    /\ UNCHANGED gc_vars

\* with self.data_lock: (entry)
CollectLock ==
    /\ pc = "lock"
    /\ data_lock = "free"
    /\ data_lock' = "collect"
    /\ pc' = "append"
    /\ UNCHANGED <<collectors, history_length, running, fields, optional_fields,
                   statistics, variables, ready, _terminate, ci, data, invoked,
                   ret, ipc, iseen, iret, upc, uarg, uleft>>
    /\ UNCHANGED ksm_vars
    /\ UNCHANGED gc_vars

\* a snapshot that holds a reference to the deque sees what is done to the deque
Aliased(e, stats) ==
    IF e # None /\ e[1].statistics.alias
    THEN Some([e[1] EXCEPT !.statistics.rows = stats])
    ELSE e

\* self.statistics.append(data)
CollectAppend ==
    /\ pc = "append"
    /\ statistics' = Append(statistics, data)
    /\ iret' = Aliased(iret, statistics')
    /\ pc' = "evict"
    /\ UNCHANGED <<collectors, history_length, running, fields, optional_fields,
                   variables, ready, _terminate, data_lock, ci, data, invoked,
                   ret, ipc, iseen, upc, uarg, uleft>>
    /\ UNCHANGED ksm_vars
    /\ UNCHANGED gc_vars

\* if len(self.statistics) > sample-history-length: self.statistics.popleft()
EvictKeepsAll(stats, bound) == stats

EvictAtBound(stats, bound) == IF Len(stats) >= bound THEN PopLeft(stats) ELSE stats

Evict(stats, bound) == IF Len(stats) > bound THEN PopLeft(stats) ELSE stats

\* the eviction and the end of the with block
CollectEvict ==
    /\ pc = "evict"
    /\ statistics' = Evict(statistics, history_length)
    /\ iret' = Aliased(iret, statistics')
    /\ data_lock' = "free"
    /\ pc' = "set_ready"
    /\ UNCHANGED <<collectors, history_length, running, fields, optional_fields,
                   variables, ready, _terminate, ci, data, invoked, ret, ipc,
                   iseen, upc, uarg, uleft>>
    /\ UNCHANGED ksm_vars
    /\ UNCHANGED gc_vars

\* self._set_ready(); return data
CollectSetReady ==
    /\ pc = "set_ready"
    /\ ready' = "True"
    /\ ret' = Some(data)
    /\ data' = EmptyDict
    /\ pc' = "idle"
    /\ UNCHANGED <<collectors, history_length, running, fields, optional_fields,
                   statistics, variables, _terminate, data_lock, ci, invoked,
                   ipc, iseen, iret, upc, uarg, uleft>>
    /\ UNCHANGED ksm_vars
    /\ UNCHANGED gc_vars

----------------------------------------------------------------------------
\* Monitor.terminate(), Monitor.should_run(), Monitor.isReady()

Terminate ==
    /\ _terminate' = TRUE
    /\ UNCHANGED <<collectors, history_length, running, fields, optional_fields,
                   statistics, variables, ready, data_lock, pc, ci, data,
                   invoked, ret, ipc, iseen, iret, upc, uarg, uleft>>
    /\ UNCHANGED ksm_vars
    /\ UNCHANGED gc_vars

should_run == running = 1 /\ ~_terminate

\* the setting 'sample-history-length' of self.config, which collect() reads
\* anew in every cycle, is given another value between two cycles
ConfigSetHistoryLength ==
    /\ pc = "idle"
    /\ \E n \in 0..MaxHistory : n # history_length /\ history_length' = n
    /\ UNCHANGED <<collectors, running, fields, optional_fields, statistics,
                   variables, ready, _terminate, data_lock, pc, ci, data,
                   invoked, ret, ipc, iseen, iret, upc, uarg, uleft>>
    /\ UNCHANGED ksm_vars
    /\ UNCHANGED gc_vars

isReady == ready = "True"

----------------------------------------------------------------------------
\* Monitor.interrogate()

\* Entity._set_statistics(stats): the snapshot gets the rows of the deque,
\* not the deque
Entity_set_statistics_by_reference(stats) == [alias |-> TRUE, rows |-> stats]

Entity_set_statistics(stats) == [alias |-> FALSE, rows |-> stats]

\* if self.ready is not True: return None
NotReadyGateMissesUnknown(r) == r = "False"

NotReadyGate(r) == r # "True"

\* the call and the readiness test, which is made without the lock
InterrogateCall ==
    /\ ipc = "idle"
    /\ iseen' = ready
    /\ IF NotReadyGate(ready)
       THEN /\ iret' = None
            /\ ipc' = "idle"
       ELSE /\ iret' = iret
            /\ ipc' = "lock"
    /\ UNCHANGED <<collectors, history_length, running, fields, optional_fields,
                   statistics, variables, ready, _terminate, data_lock, pc, ci,
                   data, invoked, ret, upc, uarg, uleft>>
    /\ UNCHANGED ksm_vars
    /\ UNCHANGED gc_vars

\* with self.data_lock: (entry)
InterrogateLockIgnoresHolder ==
    /\ ipc = "lock"
    /\ data_lock' = "interrogate"
    /\ ipc' = "copy"
    /\ UNCHANGED <<collectors, history_length, running, fields, optional_fields,
                   statistics, variables, ready, _terminate, pc, ci, data,
                   invoked, ret, iseen, iret, upc, uarg, uleft>>
    /\ UNCHANGED ksm_vars
    /\ UNCHANGED gc_vars

InterrogateLock ==
    /\ ipc = "lock"
    /\ data_lock = "free"
    /\ data_lock' = "interrogate"
    /\ ipc' = "copy"
    /\ UNCHANGED <<collectors, history_length, running, fields, optional_fields,
                   statistics, variables, ready, _terminate, pc, ci, data,
                   invoked, ret, iseen, iret, upc, uarg, uleft>>
    /\ UNCHANGED ksm_vars
    /\ UNCHANGED gc_vars

\* the copies made under the lock, the end of the with block, return ret
InterrogateCopy ==
    /\ ipc = "copy"
    /\ iret' = Some([properties |-> EmptyDict,
                     variables  |-> variables,
                     statistics |-> Entity_set_statistics(statistics)])
    /\ data_lock' = "free"
    /\ ipc' = "idle"
    /\ UNCHANGED <<collectors, history_length, running, fields, optional_fields,
                   statistics, variables, ready, _terminate, pc, ci, data,
                   invoked, ret, iseen, upc, uarg, uleft>>
    /\ UNCHANGED ksm_vars
    /\ UNCHANGED gc_vars

----------------------------------------------------------------------------
\* Monitor.update_variables(variables)

\* self.variables[var] = val
SetItem(d, k, v) == [x \in Keys(d) \cup {k} |-> IF x = k THEN v ELSE d[x]]

UpdateCall(t, args) ==
    /\ upc[t] = "idle"
    /\ \E a \in args : uarg' = [uarg EXCEPT ![t] = a]
    /\ upc' = [upc EXCEPT ![t] = "lock"]
    /\ UNCHANGED <<collectors, history_length, running, fields, optional_fields,
                   statistics, variables, ready, _terminate, data_lock, pc, ci,
                   data, invoked, ret, ipc, iseen, iret, uleft>>
    /\ UNCHANGED ksm_vars
    /\ UNCHANGED gc_vars

\* with self.data_lock: (entry) and the start of the loop over variables.items()
UpdateLockIgnoresHolder(t) ==
    /\ upc[t] = "lock"
    /\ data_lock' = "update_variables"
    /\ upc' = [upc EXCEPT ![t] = "write"]
    /\ uleft' = [uleft EXCEPT ![t] = Keys(uarg[t])]
    /\ UNCHANGED <<collectors, history_length, running, fields, optional_fields,
                   statistics, variables, ready, _terminate, pc, ci, data,
                   invoked, ret, ipc, iseen, iret, uarg>>
    /\ UNCHANGED ksm_vars
    /\ UNCHANGED gc_vars

UpdateLock(t) ==
    /\ upc[t] = "lock"
    /\ data_lock = "free"
    /\ data_lock' = "update_variables"
    /\ upc' = [upc EXCEPT ![t] = "write"]
    /\ uleft' = [uleft EXCEPT ![t] = Keys(uarg[t])]
    /\ UNCHANGED <<collectors, history_length, running, fields, optional_fields,
                   statistics, variables, ready, _terminate, pc, ci, data,
                   invoked, ret, ipc, iseen, iret, uarg>>
    /\ UNCHANGED ksm_vars
    /\ UNCHANGED gc_vars

\* one round of the loop: self.variables[var] = val
UpdateWrite(t) ==
    /\ upc[t] = "write"
    /\ \E k \in uleft[t] :
          /\ variables' = SetItem(variables, k, uarg[t][k])
          /\ uleft' = [uleft EXCEPT ![t] = uleft[t] \ {k}]
    /\ UNCHANGED <<collectors, history_length, running, fields, optional_fields,
                   statistics, ready, _terminate, data_lock, pc, ci, data,
                   invoked, ret, ipc, iseen, iret, upc, uarg>>
    /\ UNCHANGED ksm_vars
    /\ UNCHANGED gc_vars

\* the end of the loop and of the with block
UpdateRelease(t) ==
    /\ upc[t] = "write"
    /\ uleft[t] = {}
    /\ data_lock' = "free"
    /\ uarg' = [uarg EXCEPT ![t] = EmptyDict]
    /\ upc' = [upc EXCEPT ![t] = "idle"]
    /\ UNCHANGED <<collectors, history_length, running, fields, optional_fields,
                   statistics, variables, ready, _terminate, pc, ci, data,
                   invoked, ret, ipc, iseen, iret, uleft>>
    /\ UNCHANGED ksm_vars
    /\ UNCHANGED gc_vars

----------------------------------------------------------------------------
\* KSM controller (mom/Controllers/KSM.py)

\* self.keys
keys == <<"run", "pages_to_scan", "sleep_millisecs", "merge_across_nodes">>

KeySet == {keys[i] : i \in DOMAIN keys}

\* Python values a policy can leave in a control: an int, a float (given in
\* tenths) or a str (given as its characters)
PyInt(n) == [type |-> "int", n |-> n]

PyFloat(tenths) == [type |-> "float", tenths |-> tenths]

PyStr(chars) == [type |-> "str", chars |-> chars]

\* what host.GetControl can return
ControlValues ==
    {None, Some(PyInt(0)), Some(PyInt(1)), Some(PyFloat(15)), Some(PyStr(<<"1">>)),
     Some(PyStr(<<"x">>))}

\* what the attribute host.ksm_<key> can hold (None: no such attribute)
AppliedValues == {None, Some(0), Some(1)}

Digit(c) ==
    CASE c = "0" -> 0 [] c = "1" -> 1 [] c = "2" -> 2 [] c = "3" -> 3
      [] c = "4" -> 4 [] c = "5" -> 5 [] c = "6" -> 6 [] c = "7" -> 7
      [] c = "8" -> 8 [] c = "9" -> 9 [] OTHER -> -1

RECURSIVE ParseDigits(_, _)
ParseDigits(chars, acc) ==
    IF chars = << >> THEN acc
    ELSE ParseDigits(Tail(chars), 10 * acc + Digit(Head(chars)))

\* int(rule_var): Some(n), or None when int() raises ValueError
PyIntOf(x) ==
    CASE x.type = "int" -> Some(x.n)
      [] x.type = "float" ->
            Some(IF x.tenths >= 0 THEN x.tenths \div 10 ELSE -((-x.tenths) \div 10))
      [] x.type = "str" ->
            IF x.chars # << >> /\ \A i \in DOMAIN x.chars : Digit(x.chars[i]) >= 0
            THEN Some(ParseDigits(x.chars, 0))
            ELSE None

\* the knob is looked at: the policy set a value for it
Present(ctl, key) == ctl[key] # None

\* int() raises for some knob the loop reaches
CoercionFails(ctl) == \E k \in KeySet : Present(ctl, k) /\ PyIntOf(ctl[k][1]) = None

\* if rule_var != before_var
ChangedAlways(ctl, applied, key) == Present(ctl, key)

Changed(ctl, applied, key) ==
    Present(ctl, key) /\ PyIntOf(ctl[key][1]) # applied[key]

\* the dict outputs at the end of the loop
Outputs(ctl, applied) ==
    LET ks == {k \in KeySet : Changed(ctl, applied, k)}
    IN  [k \in ks |-> PyIntOf(ctl[k][1])[1]]

\* if len(outputs) > 0: self.hypervisor_iface.ksmTune(outputs)
TuneCallsUnconditional(outputs) == <<outputs>>

TuneCalls(outputs) == IF Cardinality(Keys(outputs)) > 0 THEN <<outputs>> ELSE << >>

\* the call before the one that starts, when the controls are as they were
Previous == IF kpc = "idle" THEN kprev ELSE Some(tune_calls)

InitKSM(ctls, applieds) ==
    /\ controls \in [KeySet -> ctls]
    /\ host_ksm \in [KeySet -> applieds]
    /\ kpc = "idle"
    /\ tune_calls = << >>
    /\ kprev = None

\* KSM.process(host, guests), ksmTune returning normally
KSMProcess ==
    /\ ~CoercionFails(controls)
    /\ tune_calls' = TuneCalls(Outputs(controls, host_ksm))
    /\ kpc' = "returned"
    /\ kprev' = Previous
    /\ UNCHANGED <<controls, host_ksm>>
    /\ UNCHANGED monitor_vars
    /\ UNCHANGED gc_vars

\* KSM.process(host, guests), int(rule_var) raising ValueError inside the loop
KSMProcessCoercionError ==
    /\ CoercionFails(controls)
    /\ tune_calls' = << >>
    /\ kpc' = "raised"
    /\ kprev' = Previous
    /\ UNCHANGED <<controls, host_ksm>>
    /\ UNCHANGED monitor_vars
    /\ UNCHANGED gc_vars

\* KSM.process(host, guests), ksmTune raising
KSMProcessTuneError ==
    /\ ~CoercionFails(controls)
    /\ TuneCalls(Outputs(controls, host_ksm)) # << >>
    /\ tune_calls' = TuneCalls(Outputs(controls, host_ksm))
    /\ kpc' = "raised"
    /\ kprev' = Previous
    /\ UNCHANGED <<controls, host_ksm>>
    /\ UNCHANGED monitor_vars
    /\ UNCHANGED gc_vars

\* the policy evaluator sets or clears a control between two cycles
PolicySetControl ==
    /\ \E k \in KeySet, v \in ControlValues : controls' = [controls EXCEPT ![k] = v]
    /\ kpc' = "idle"
    /\ tune_calls' = << >>
    /\ kprev' = None
    /\ UNCHANGED host_ksm
    /\ UNCHANGED monitor_vars
    /\ UNCHANGED gc_vars

\* the monitoring side reads the knobs back after a write that went through
\* and stores them in host.ksm_<key>
HostRefresh ==
    /\ kpc = "returned"
    /\ tune_calls # << >>
    /\ host_ksm' = [k \in KeySet |-> IF k \in Keys(tune_calls[1])
                                     THEN Some(tune_calls[1][k])
                                     ELSE host_ksm[k]]
    /\ kprev' = Some(tune_calls)
    /\ kpc' = "idle"
    /\ tune_calls' = << >>
    /\ UNCHANGED controls
    /\ UNCHANGED monitor_vars
    /\ UNCHANGED gc_vars

----------------------------------------------------------------------------
\* get_collectors (mom/Collectors/Collector.py)

\* most pieces a config_str is split into
MaxNames == 3

\* name.lstrip()
RECURSIVE LStrip(_)
LStrip(chars) ==
    IF chars # << >> /\ Head(chars) = " " THEN LStrip(Tail(chars)) ELSE chars

\* the pieces between the commas: "A" and "B" are collectors that construct,
\* "F" is a collector whose constructor raises FatalError, "E" one whose
\* constructor raises another exception, "Z" names no module
Pieces ==
    { << >>, <<" ", "A">>, <<"A">>, <<"B">>, <<"F">>, <<"E">>, <<"Z">>, <<"B", " ">> }

ConfigStrings == UNION {[1..n -> Pieces] : n \in 0..MaxNames}

\* __import__('mom.Collectors.' + name, ...) finds a module
Importable(name) == name \in {<<"A">>, <<"B">>, <<"F">>, <<"E">>}

\* what getattr(module, name)(properties) does
Constructor(name) ==
    CASE name = <<"F">> -> "FatalError"
      [] name = <<"E">> -> "Exception"
      [] OTHER -> "instance"

\* dict(global_config.items("Collector: %s" % name, raw=True))
SectionItems(name) == [section |-> name]

\* properties['config'] = ...
SetConfig(props, name) ==
    [k \in Keys(props) \cup {"config"} |->
        IF k = "config" THEN SectionItems(name) ELSE props[k]]

\* if global_config.has_section(section): properties['config'] = ...
Context(props, name, sections) ==
    IF name \in sections THEN SetConfig(props, name) ELSE props

Ended(pcv, retv, props, built) ==
    [pc |-> pcv, ret |-> retv, properties |-> props, collectors |-> built]

\* the for loop of get_collectors over the pieces that are left
RECURSIVE ConstructPartial(_, _, _, _)
ConstructPartial(names, props, built, sections) ==
    IF names = << >> THEN Ended("returned", Some(built), props, built)
    ELSE LET name == LStrip(Head(names))
             p == Context(props, name, sections)
         IN  IF name = << >>
             THEN ConstructPartial(Tail(names), props, built, sections)
             ELSE IF ~Importable(name) \/ Constructor(name) = "FatalError"
             THEN Ended("returned", Some(built), p, built)
             ELSE IF Constructor(name) = "Exception"
             THEN Ended("raised", None, p, built)
             ELSE ConstructPartial(Tail(names), p,
                     Append(built, [name |-> name, properties |-> p]), sections)

RECURSIVE Construct(_, _, _, _)
Construct(names, props, built, sections) ==
    IF names = << >> THEN Ended("returned", Some(built), props, built)
    ELSE LET name == LStrip(Head(names))
             p == Context(props, name, sections)
         IN  IF name = << >>
             THEN Construct(Tail(names), props, built, sections)
             ELSE IF ~Importable(name)
             THEN Ended("returned", None, p, built)
             ELSE IF Constructor(name) = "FatalError"
             THEN Ended("returned", None, p, built)
             ELSE IF Constructor(name) = "Exception"
             THEN Ended("raised", None, p, built)
             ELSE Construct(Tail(names), p,
                     Append(built, [name |-> name, properties |-> p]), sections)

\* dicts a Monitor passes as properties
PropertyDicts ==
    { [k \in {"name"} |-> "host"],
      [k \in {"name", "config"} |-> IF k = "config" THEN SectionItems(<<"own">>)
                                                     ELSE "host"] }

InitGetCollectors(strings, sectionsets, dicts) ==
    /\ config_str \in strings
    /\ global_config \in sectionsets
    /\ base_properties \in dicts
    /\ properties = base_properties
    /\ gc_pc = "idle"
    /\ gc_collectors = << >>
    /\ gc_ret = None

\* get_collectors(config_str, properties, global_config)
GetCollectors ==
    /\ gc_pc = "idle"
    /\ LET end == IF "config" \in Keys(properties)
                  THEN Ended("returned", None, properties, << >>)
                  ELSE Construct(config_str, properties, << >>, global_config)
       IN  /\ gc_pc' = end.pc
           /\ gc_ret' = end.ret
           /\ properties' = end.properties
           /\ gc_collectors' = end.collectors
    /\ UNCHANGED <<config_str, global_config, base_properties>>
    /\ UNCHANGED monitor_vars
    /\ UNCHANGED ksm_vars

----------------------------------------------------------------------------
\* Specifications

\* no get_collectors call going on
NoGetCollectors ==
    InitGetCollectors({<< >>}, {{}}, {[k \in {"name"} |-> "host"]})

\* dicts passed to update_variables
VariableDicts == {[k \in {"v"} |-> 1]}

\* fragments with which the snapshots are exercised
SnapshotFragments == {EmptyDict, [k \in {"x"} |-> Some(5)], [k \in {"x"} |-> Some(9)]}

\* fragments with which the history is exercised
HistoryFragments ==
    { EmptyDict, [k \in {"x"} |-> Some(5)], [k \in {"x"} |-> Some(9)],
      [k \in {"x"} |-> None], [k \in {"y"} |-> Some(5)],
      [k \in {"x", "y"} |-> Some(9)] }

\* a Monitor with no controller cycle going on
NoKSM == InitKSM({None}, {None})

\* a controller with a Monitor that is never run
NoMonitor == InitMonitor({<<Decl({}, {}), Decl({}, {})>>}, {1}, {1})

CollectCycle(frags) ==
    \/ CollectBegin
    \/ CollectorReturns(frags)
    \/ CollectorReturnsNone
    \/ CollectorCollectionError
    \/ CollectorUnexpectedError
    \/ CollectorFatalError
    \/ CollectIncomplete
    \/ CollectFill
    \/ CollectLock
    \/ CollectAppend
    \/ CollectEvict
    \/ CollectSetReady

\* the collection cycle, every fragment, a few collector lists
Init == InitMonitor(SomeCollectorLists, {1}, {0, 1}) /\ NoKSM /\ NoGetCollectors

Next == CollectCycle(Fragments) \/ Terminate

Spec == Init /\ [][Next]_vars

\* the field contract, every list of two collectors
InitFields == InitMonitor(AllCollectorLists, {1}, {1}) /\ NoKSM /\ NoGetCollectors

NextFields == CollectCycle(HistoryFragments)

SpecFields == InitFields /\ [][NextFields]_vars

\* the bounded history, every configured length up to MaxHistory
InitHistory ==
    InitMonitor(SomeCollectorLists, 0..MaxHistory, {1}) /\ NoKSM /\ NoGetCollectors

NextHistory == CollectCycle(HistoryFragments)

SpecHistory == InitHistory /\ [][NextHistory]_vars

\* collect() running against interrogate() and update_variables()
InitSnapshot ==
    /\ InitMonitor({<<Decl({"x"}, {})>>}, 0..MaxHistory, {1})
    /\ NoKSM
    /\ NoGetCollectors

NextSnapshot ==
    \/ CollectCycle(SnapshotFragments)
    \/ InterrogateCall
    \/ InterrogateLock
    \/ InterrogateCopy
    \/ UpdateCall(1, VariableDicts)
    \/ UpdateLock(1)
    \/ UpdateWrite(1)
    \/ UpdateRelease(1)

SpecSnapshot == InitSnapshot /\ [][NextSnapshot]_vars

\* collect() with the history length reconfigured between cycles
InitReconfig ==
    /\ InitMonitor({<<Decl({"x"}, {})>>}, 0..MaxHistory, {1})
    /\ NoKSM
    /\ NoGetCollectors

NextReconfig == CollectCycle(SnapshotFragments) \/ ConfigSetHistoryLength

SpecReconfig == InitReconfig /\ [][NextReconfig]_vars

\* batches passed to update_variables by two threads
VariableBatches ==
    { [k \in {"a", "b"} |-> 1], [k \in {"a", "b"} |-> 2], [k \in {"b"} |-> 3] }

\* update_variables() of two threads running against interrogate() and collect()
InitVariables ==
    /\ InitMonitor({<<Decl({"x"}, {})>>}, {1}, {1})
    /\ NoKSM
    /\ NoGetCollectors

NextVariables ==
    \/ CollectCycle({[k \in {"x"} |-> Some(5)]})
    \/ InterrogateCall
    \/ InterrogateLock
    \/ InterrogateCopy
    \/ \E t \in Updaters : UpdateCall(t, VariableBatches)
    \/ \E t \in Updaters : UpdateLock(t)
    \/ \E t \in Updaters : UpdateWrite(t)
    \/ \E t \in Updaters : UpdateRelease(t)

SpecVariables == InitVariables /\ [][NextVariables]_vars

\* the KSM controller
InitController ==
    NoMonitor /\ InitKSM(ControlValues, AppliedValues) /\ NoGetCollectors

NextController ==
    \/ KSMProcess
    \/ KSMProcessCoercionError
    \/ KSMProcessTuneError
    \/ PolicySetControl
    \/ HostRefresh

SpecKSM == InitController /\ [][NextController]_vars

\* the construction of a Monitor's collectors
InitCollectors ==
    /\ NoMonitor
    /\ NoKSM
    /\ InitGetCollectors(ConfigStrings, SUBSET {<<"A">>, <<"B">>, <<"F">>},
                         PropertyDicts)

NextCollectors == GetCollectors

SpecCollectors == InitCollectors /\ [][NextCollectors]_vars

----------------------------------------------------------------------------
\* What the log of a cycle says, independently of the accumulator

\* the calls of the log that returned a dict with key k
Supplied(log, k) ==
    {i \in DOMAIN log : log[i].result = "dict" /\ k \in DOMAIN log[i].collected[1]}

\* the calls of the log that returned a non-null value for k
SuppliedNonNull(log, k) == {i \in Supplied(log, k) : log[i].collected[1][k] # None}

First(S) == CHOOSE i \in S : \A j \in S : i <= j

SuppliedKeys(log) == {k \in Fields : Supplied(log, k) # {}}

Fatal(log) == \E i \in DOMAIN log : log[i].result = "FatalError"

\* the cycle whose log this is went through every collector
RanAll(log) == Len(log) = Len(collectors) /\ ~Fatal(log)

\* collect() has returned at least once and is not running
Returned == pc = "idle" /\ ready # "None"

\* the dict the running or the last cycle holds
Merged == IF pc = "idle" THEN ret ELSE Some(data)

LastN(s, n) == IF Len(s) > n THEN SubSeq(s, Len(s) - n + 1, Len(s)) ELSE s

----------------------------------------------------------------------------
\* C1: in collect(), once a collector has supplied a non-null value for a
\* field, that value stays: the accumulator during the cycle, the returned
\* dict and the appended sample hold, for every field, the first non-null
\* value supplied in declared collector order.
C1_FirstNonNullWins ==
    /\ \A k \in Fields :
          (Merged # None /\ SuppliedNonNull(invoked, k) # {}) =>
             /\ k \in Keys(Merged[1])
             /\ Merged[1][k] = invoked[First(SuppliedNonNull(invoked, k))].collected[1][k]
    /\ (pc = "idle" /\ ret # None /\ history_length >= 1) =>
          /\ statistics # << >>
          /\ statistics[Len(statistics)] = ret[1]

\* collectors A then B returned {x: 5} and {x: 9}; the sample has x = 5
C1_Witness ==
    /\ pc = "idle"
    /\ Len(invoked) = 2
    /\ invoked[1].collected = Some([k \in {"x"} |-> Some(5)])
    /\ invoked[2].collected = Some([k \in {"x"} |-> Some(9)])
    /\ ret # None
    /\ ret[1]["x"] = Some(5)
    /\ statistics[Len(statistics)]["x"] = Some(5)

C3_BoundedHistory ==
    [][ /\ history_length' = history_length
        /\ (pc' # "evict") => Len(statistics') <= history_length
        /\ (pc = "append" /\ pc' = "evict") =>
              /\ Len(statistics) <= history_length
              /\ statistics' = Append(statistics, data)
        /\ (pc = "evict" /\ pc' = "set_ready") =>
              statistics' = LastN(statistics, history_length)
      ]_vars

\* a full history of two different samples has just been appended to
C3_Witness ==
    /\ pc = "evict"
    /\ history_length >= 2
    /\ Len(statistics) = history_length + 1
    /\ statistics[1] # statistics[2]
    /\ statistics[2] # statistics[3]

\* C4: a cycle whose collectors did not supply every mandatory field never
\* gets to the append: it returns None with the history as it was and the
\* Monitor NotReady.  A cycle that runs every collector and is supplied every
\* mandatory field appends one sample and ends Ready, also when the Monitor
\* was NotReady before it.
C4_IncompleteThenRecover ==
    [][ /\ (statistics' # statistics) => pc \in {"append", "evict"}
        /\ (pc' \in {"lock", "append", "evict", "set_ready"}) =>
              (RanAll(invoked') /\ fields'[1] \subseteq SuppliedKeys(invoked'))
        /\ (pc = "loop" /\ pc' = "idle" /\ RanAll(invoked')) =>
              /\ ~(fields[1] \subseteq SuppliedKeys(invoked'))
              /\ ready' = "False"
              /\ ret' = None
              /\ statistics' = statistics
        /\ (pc = "loop" /\ ci > Len(collectors)
              /\ fields[1] \subseteq SuppliedKeys(invoked)) => pc' = "lock"
        /\ (pc = "append") => Len(statistics') = Len(statistics) + 1
        /\ (pc = "set_ready") => (ready' = "True" /\ ret' = Some(data) /\ pc' = "idle")
      ]_vars

\* the cycle after an incomplete one has appended its sample and is about to
\* set the Monitor Ready
C4_Witness ==
    /\ pc = "set_ready"
    /\ ready = "False"
    /\ history_length >= 1
    /\ statistics # << >>
    /\ statistics[Len(statistics)] = data

\* C5: interrogate() that reads a readiness of None (no cycle completed yet)
\* or False returns None and goes no further: it takes no lock and builds no
\* snapshot, whatever the history holds.
C5_NotReadyReturnsNone ==
    /\ (ipc = "idle" /\ iseen \in {"None", "False"}) => iret = None
    /\ (ipc # "idle") => iseen = "True"

\* interrogate() has returned None from a NotReady Monitor that holds samples
C5_Witness ==
    /\ ipc = "idle"
    /\ iseen = "False"
    /\ ready = "False"
    /\ iret = None
    /\ statistics # << >>

\* C6: the snapshot interrogate() returns from a Ready Monitor holds the
\* history as it is when the copy is made, as many samples as the Monitor
\* holds then, and no later append or eviction of collect() changes it.
C6_SnapshotIsACopy ==
    [][ /\ (ipc = "copy" /\ ipc' = "idle") =>
              /\ iseen = "True"
              /\ iret' # None
              /\ iret'[1].statistics.rows = statistics
              /\ Len(iret'[1].statistics.rows) = Len(statistics')
        /\ (statistics' # statistics) => iret' = iret
      ]_vars

\* a snapshot of two samples whose Monitor has since appended and evicted
C6_Witness ==
    /\ ipc = "idle"
    /\ iret # None
    /\ Len(iret[1].statistics.rows) = 2
    /\ Len(statistics) = 2
    /\ iret[1].statistics.rows # statistics

\* C7: a FatalError of a collector ends the cycle at that collector: no
\* collector after it is invoked, the history is as it was, collect() returns
\* None, the Monitor is NotReady and _terminate is set; _terminate is never
\* reset, so should_run() is false from then on.
C7_FatalAborts ==
    [][ /\ (invoked' # invoked /\ Fatal(invoked')) =>
              /\ invoked'[Len(invoked')].result = "FatalError"
              /\ ~Fatal(invoked)
              /\ pc' = "idle"
              /\ statistics' = statistics
              /\ ret' = None
              /\ ready' = "False"
              /\ _terminate'
        /\ (Fatal(invoked) /\ pc' # "idle") => ~Fatal(invoked')
        /\ _terminate => (_terminate' /\ ~should_run')
      ]_vars

\* the first of two collectors raised FatalError while the Monitor was Ready
\* and running
C7_Witness ==
    /\ pc = "idle"
    /\ Len(collectors) = 2
    /\ Len(invoked) = 1
    /\ invoked[1].result = "FatalError"
    /\ running = 1
    /\ ~should_run
    /\ ready = "False"
    /\ ret = None
    /\ statistics # << >>

\* C8: a CollectionError or any other exception of a collector stays inside
\* collect(): the accumulator, the history and the readiness are as they
\* were and the loop goes on.  A cycle without FatalError invokes every
\* collector in order, and it appends its sample and ends Ready when the
\* dicts that were returned hold every mandatory field.
C8_RecoverableErrors ==
    [][ /\ (invoked' # invoked /\ invoked' # << >>
              /\ invoked'[Len(invoked')].result \in {"CollectionError", "Exception"}) =>
              /\ pc' = "loop"
              /\ ci' = ci + 1
              /\ data' = data
              /\ statistics' = statistics
              /\ ready' = ready
              /\ _terminate' = _terminate
        /\ \A i \in DOMAIN invoked' : invoked'[i].collector = i
        /\ (pc = "loop" /\ pc' = "idle" /\ ~Fatal(invoked')) =>
              Len(invoked') = Len(collectors)
        /\ (pc # "idle" /\ pc' = "idle" /\ ~Fatal(invoked')
              /\ fields[1] \subseteq SuppliedKeys(invoked')) =>
              /\ ready' = "True"
              /\ ret' # None
              /\ history_length >= 1 => statistics'[Len(statistics')] = ret'[1]
      ]_vars

\* the first collector raised CollectionError, the second supplied the
\* mandatory fields, and the cycle ended Ready with a sample
C8_Witness ==
    /\ pc = "idle"
    /\ Len(invoked) = 2
    /\ invoked[1].result = "CollectionError"
    /\ invoked[2].result = "dict"
    /\ fields[1] # {}
    /\ ready = "True"
    /\ ret # None
    /\ statistics # << >>

\* C9: from the first collect() call on, self.fields is the union of every
\* collector's getFields(), self.optional_fields is the union of every
\* collector's getOptionalFields() less self.fields, and the two are
\* disjoint.
C9_FieldContract ==
    /\ (fields = None) <=> (optional_fields = None)
    /\ (pc # "idle" \/ ready # "None") => fields # None
    /\ (fields # None) =>
          /\ fields[1] =
                {f \in Fields : \E i \in DOMAIN collectors : f \in collectors[i].getFields}
          /\ optional_fields[1] =
                {f \in Fields : /\ \E i \in DOMAIN collectors :
                                      f \in collectors[i].getOptionalFields
                                /\ f \notin fields[1]}
          /\ fields[1] \cap optional_fields[1] = {}

\* one collector declares x mandatory, the other declares it optional, and a
\* second cycle is under way
C9_Witness ==
    /\ "x" \in collectors[1].getFields
    /\ "x" \in collectors[2].getOptionalFields
    /\ "y" \in collectors[2].getOptionalFields
    /\ ready = "True"
    /\ pc = "loop"
    /\ optional_fields = Some({"y"})

\* the knobs process() has to write: the desired value is there and, as an
\* int, is not the last-applied value
Differing ==
    {k \in KeySet : controls[k] # None /\ PyIntOf(controls[k][1]) # host_ksm[k]}

\* C10: process() calls ksmTune at most once, and only with a non-empty
\* dict; when it calls, the dict holds exactly the knobs whose desired value
\* is there and, as an int, is not the last-applied value, each with the
\* desired int.  A knob with no desired value is never written.
C10_DiffOnlyWrite ==
    (kpc # "idle") =>
       /\ Len(tune_calls) <= 1
       /\ \A i \in DOMAIN tune_calls :
             /\ Keys(tune_calls[i]) # {}
             /\ Keys(tune_calls[i]) = Differing
             /\ \A k \in Keys(tune_calls[i]) :
                   /\ controls[k] # None
                   /\ Some(tune_calls[i][k]) = PyIntOf(controls[k][1])
       /\ (kpc = "returned" /\ Differing # {}) => Len(tune_calls) = 1
       /\ (Differing = {}) => tune_calls = << >>

\* four desired values, one of them changed: one call with that knob alone
C10_Witness ==
    /\ kpc = "returned"
    /\ \A k \in KeySet : controls[k] # None
    /\ Len(tune_calls) = 1
    /\ Keys(tune_calls[1]) = {"pages_to_scan"}

\* four desired values equal, as ints, to the last-applied ones, one of them
\* a float: no call
C10_WitnessNoWrite ==
    /\ kpc = "returned"
    /\ \A k \in KeySet : controls[k] # None
    /\ controls["run"] = Some(PyFloat(15))
    /\ tune_calls = << >>

\* C11 as stated: when process() is called twice with the same desired
\* values, the second call makes no ksmTune call.
C11_SecondCallSilent ==
    (kpc # "idle" /\ kprev # None) => tune_calls = << >>

\* the host shows, for every knob of the map m, the value m carries
Shows(m) == \A k \in Keys(m) : host_ksm[k] = Some(m[k])

\* C11 amended: when process() is called twice with the same desired values,
\* the second call makes no ksmTune call if the first made none or if the
\* host's last-applied values have been updated to what the first call
\* wrote; the controller does not update them itself, and while they are
\* not updated the second call repeats the first call's ksmTune call.
C11_SilentOnceRefreshed ==
    (kpc # "idle" /\ kprev # None) =>
       /\ (kprev[1] = << >>) => tune_calls = << >>
       /\ (kprev[1] # << >> /\ Shows(kprev[1][1])) => tune_calls = << >>
       /\ (kprev[1] # << >> /\ ~Shows(kprev[1][1])) => tune_calls = kprev[1]

\* the first call wrote, the host was refreshed, the second call wrote
\* nothing
C11_Witness ==
    /\ kpc = "returned"
    /\ kprev # None
    /\ kprev[1] # << >>
    /\ Shows(kprev[1][1])
    /\ tune_calls = << >>

\* C12: a failure of the write at the hypervisor boundary stays inside the
\* controller: process() does not raise because ksmTune failed.
C12_WriteFailureCaught ==
    ~(kpc = "raised" /\ tune_calls # << >>)

\* the names of a config_str, in order: the pieces that are not empty once
\* their leading blanks are dropped
NamedIn(cs) ==
    LET stripped == [i \in DOMAIN cs |-> LStrip(cs[i])]
        IsName(n) == n # << >>
    IN  SelectSeq(stripped, IsName)

\* C13: get_collectors returns one instance per non-empty name, in declared
\* order, when every name resolves and constructs; when a name does not
\* resolve or a constructor fails, at whatever position, it returns no list
\* at all, never the list of those constructed so far.
C13_AllOrNothing ==
    (gc_pc # "idle") =>
       LET names == NamedIn(config_str)
           good == /\ "config" \notin Keys(base_properties)
                   /\ \A i \in DOMAIN names : names[i] \in {<<"A">>, <<"B">>}
       IN  /\ good => /\ gc_pc = "returned"
                      /\ gc_ret # None
                      /\ Len(gc_ret[1]) = Len(names)
                      /\ \A i \in DOMAIN names : gc_ret[1][i].name = names[i]
           /\ ~good => gc_ret = None

\* two collectors were constructed, the third failed with FatalError, and
\* nothing was returned
C13_Witness ==
    /\ gc_pc = "returned"
    /\ Len(config_str) = 3
    /\ config_str[3] = <<"F">>
    /\ Len(gc_collectors) = 2
    /\ gc_ret = None

\* C18: every collector is constructed with the base properties plus only
\* its own section's options under 'config' (no 'config' at all when it has
\* no section), and the caller's properties are unaltered after the call.
C18_OwnSectionOnly ==
    (gc_pc # "idle") =>
       /\ \A i \in DOMAIN gc_collectors :
             gc_collectors[i].properties =
                IF gc_collectors[i].name \in global_config
                THEN SetConfig(base_properties, gc_collectors[i].name)
                ELSE base_properties
       /\ properties = base_properties

\* C14: once collect() has appended and evicted, the history is no longer
\* than the bound configured at that moment, also when the bound was lowered
\* between cycles below the length the history had.
C14_EvictsDownToBound == (pc = "set_ready") => Len(statistics) <= history_length

\* C15: data_lock is held by collect() only between its append and the end
\* of its eviction, never while the loop over the collectors runs; it is held
\* by interrogate() only while it copies and by update_variables() only while
\* it writes, so every thread that is outside its with block has released it,
\* and a thread waiting for the lock while collect() is inside a collector
\* call and no other thread is in its with block can take it.
C15_LockOnlyInWithBlocks ==
    /\ (data_lock = "collect") <=> (pc \in {"append", "evict"})
    /\ (data_lock = "interrogate") <=> (ipc = "copy")
    /\ (data_lock = "update_variables") <=> (\E t \in Updaters : upc[t] = "write")
    /\ (pc = "loop" /\ ipc # "copy" /\ \A t \in Updaters : upc[t] # "write") =>
          /\ (ipc = "lock") => ENABLED InterrogateLock
          /\ \A t \in Updaters : (upc[t] = "lock") => ENABLED UpdateLock(t)

\* interrogate() is copying under the lock, and update_variables() waits for
\* it, while collect() is at a collector call inside its loop
C15_Witness ==
    /\ pc = "loop"
    /\ InLoop
    /\ ready = "True"
    /\ ipc = "copy"
    /\ data_lock = "interrogate"
    /\ upc[1] = "lock"

\* C16: interrogate() never copies between the append and the eviction of a
\* cycle, and the history of the snapshot it returns is no longer than the
\* configured bound.
C16_SnapshotNeverMidAppend ==
    /\ (ipc = "copy") => pc \notin {"append", "evict"}
    /\ (iret # None) => Len(iret[1].statistics.rows) <= history_length

\* interrogate() waits for the lock while the history holds one sample more
\* than the bound, between the append and the eviction
C16_Witness ==
    /\ ipc = "lock"
    /\ pc = "evict"
    /\ history_length = MaxHistory
    /\ Len(statistics) = history_length + 1
    /\ iret # None
    /\ Len(iret[1].statistics.rows) = history_length

\* the updater that is inside its with block
Writer == CHOOSE t \in Updaters : upc[t] = "write"

\* C17: a step that changes self.variables is a step of the one updater
\* inside its with block; it sets one key of that updater's batch to the
\* batch's value and leaves every other variable, the history and the
\* readiness as they were.  When an updater leaves its with block every key
\* of its batch holds the batch's value, whatever the other updater did before
\* or tried meanwhile.  interrogate() copies self.variables only while no
\* updater is inside its with block, so a snapshot holds all of a batch or
\* nothing of it.
C17_BatchAtomic ==
    [][ /\ (variables' # variables) =>
              /\ \E t \in Updaters : upc[t] = "write"
              /\ \A t \in Updaters : (upc[t] = "write") => t = Writer
              /\ ipc # "copy"
              /\ \E k \in Keys(uarg[Writer]) :
                    /\ Keys(variables') = Keys(variables) \cup {k}
                    /\ variables'[k] = uarg[Writer][k]
                    /\ \A x \in Keys(variables) \ {k} : variables'[x] = variables[x]
              /\ statistics' = statistics
              /\ ready' = ready
        /\ \A t \in Updaters :
              (upc[t] = "write" /\ upc'[t] = "idle") =>
                 \A k \in Keys(uarg[t]) :
                    k \in Keys(variables') /\ variables'[k] = uarg[t][k]
        /\ (ipc = "copy" /\ ipc' = "idle") =>
              /\ iret'[1].variables = variables
              /\ \A t \in Updaters : upc[t] # "write"
      ]_vars

\* a snapshot holds the whole first batch; since then the other updater has
\* overwritten b alone, and the first updater is half way through a new batch
\* that interrogate(), waiting for the lock, cannot see
C17_Witness ==
    /\ iret # None
    /\ iret[1].variables = [k \in {"a", "b"} |-> 1]
    /\ upc[1] = "write"
    /\ uarg[1] = [k \in {"a", "b"} |-> 2]
    /\ Cardinality(uleft[1]) = 1
    /\ ipc = "lock"
    /\ upc[2] = "lock"
    /\ statistics # << >>

\* C19: a Ready Monitor whose bound is at least 1 holds a sample.  The
\* readiness never goes back to Unknown, and no return of collect() leaves it
\* Unknown.  collect() returns with the Monitor Ready exactly when the call
\* went through its append, and NotReady otherwise.
C19_ReadyMeansSample ==
    [][ /\ (ready' = "True" /\ history_length' >= 1) => statistics' # << >>
        /\ (ready' = "None") => (ready = "None" /\ ret' = None)
        /\ (pc # "idle" /\ pc' = "idle") =>
              /\ ready' # "None"
              /\ (ready' = "True") <=> (pc = "set_ready")
              /\ (ready' = "False") <=> (pc # "set_ready")
              /\ (pc = "set_ready") <=> (ret' # None)
        /\ (pc = "evict" /\ history_length >= 1) =>
              (statistics' # << >> /\ statistics'[Len(statistics')] = data)
      ]_vars

\* collect() has returned Ready from a cycle whose first collector supplied
\* nothing: with a bound of 1 the history holds the sample it returned
C19_Witness ==
    /\ pc = "idle"
    /\ ready = "True"
    /\ history_length = 1
    /\ invoked # << >>
    /\ invoked[1].result # "dict"
    /\ Len(statistics) = 1
    /\ ret = Some(statistics[1])

\* C20: every sample of the history has a key for every mandatory and every
\* optional field; in the sample a cycle returned, an optional field that no
\* collector supplied is None.  A cycle that ran every collector and was
\* supplied every mandatory field, be it with None as the only value, has
\* appended its sample and left the Monitor Ready.
C20_PresenceOnly ==
    /\ \A i \in DOMAIN statistics : valid_fields \subseteq Keys(statistics[i])
    /\ (Returned /\ ret # None) =>
          \A k \in optional_fields[1] : (Supplied(invoked, k) = {}) => ret[1][k] = None
    /\ (Returned /\ RanAll(invoked) /\ fields[1] \subseteq SuppliedKeys(invoked)) =>
          /\ ready = "True"
          /\ ret # None
          /\ statistics # << >>
          /\ statistics[Len(statistics)] = ret[1]

\* the sample just returned and appended holds None for a mandatory field
C20_Witness ==
    /\ Returned
    /\ ready = "True"
    /\ ret # None
    /\ \E k \in fields[1] : ret[1][k] = None
    /\ statistics # << >>
    /\ statistics[Len(statistics)] = ret[1]

====
